---- MODULE Spec2Model ----
(***************************************************************************)
(* Model of pyautogui/Main.py: the line repeater.                          *)
(*                                                                         *)
(* A run prompts twice through a Tk dialog (get_input_from_tk_window),     *)
(* shows an acknowledgment, sleeps a countdown and then retypes the line   *)
(* (repeat_line).  Texts are sequences of one-character strings; every     *)
(* duration is in tenths of a second (0.1 s = 1, 0.5 s = 5, 2 s = 20,      *)
(* 7 s = 70, 10 s = 100).  The variable events is the history of what the  *)
(* run did, in order: dialog events, sleeps and injected keystrokes.       *)
(***************************************************************************)
EXTENDS Integers, Sequences, FiniteSets

VARIABLES
    pc,                 \* position of the single thread of control
    arg,                \* the countdown argument of the call of line_repeater
    wait_before_start,  \* parameter of line_repeater
    which,              \* the prompt line_repeater is in: "line" or "times"
    root,               \* the Tk dialog of the current prompt
    input_value,        \* the module-level global of line 6
    line,               \* local of line_repeater
    times,              \* local of line_repeater (a string)
    rl_line,            \* parameters of repeat_line
    rl_times,
    rl_delay,
    rl_key,
    i,                  \* loop variable of repeat_line
    err,                \* the uncaught exception that ended the run, if any
    events              \* history of the run

vars == <<pc, arg, wait_before_start, which, root, input_value, line, times,
          rl_line, rl_times, rl_delay, rl_key, i, err, events>>

----------------------------------------------------------------------------
(* Bounds of the model. *)

MaxLineLen == 2
MaxCountLen == 2
MaxTimes == 3

(* Characters the user types into the two prompts. *)
LineChars == {"h", "1"}
CountChars == {"0", "1", "-", " ", "a"}

SeqsUpTo(S, n) == UNION {[1..k -> S] : k \in 0..n}

LineTexts == SeqsUpTo(LineChars, MaxLineLen)
CountTexts == SeqsUpTo(CountChars, MaxCountLen)

----------------------------------------------------------------------------
(* Values and program constants. *)

\* Python's None; no text equals it.
None == <<"None">>
\* A local that has not been assigned yet.
Undef == <<"undef">>
\* line_repeater called without an argument.
NoArg == -1

\* line_repeater(wait_before_start=7)
MainWait == 70
DefaultWaitSeven == MainWait
\* def line_repeater(wait_before_start=10)
DefaultWait == 100
\* time.sleep(2) in the dialog handlers
FeedbackDelay == 20
\* pyautogui.typewrite(line, interval=0.1)
TypeInterval == 1
RepeatDelayDoubled == 2 * 5
\* repeat_line(..., delay=0.5, ...)
RepeatDelay == 5

Ev(k, m, t, d) == [kind |-> k, msg |-> m, txt |-> t, d |-> d]

----------------------------------------------------------------------------
(* int(): Python's conversion of a string to an integer.  Surrounding      *)
(* whitespace is stripped, one sign is accepted, and the rest must be      *)
(* digits, with single underscores allowed between digits.                 *)

Digits == {"0", "1", "2", "3", "4", "5", "6", "7", "8", "9"}

DigitVal(c) ==
    CASE c = "0" -> 0 [] c = "1" -> 1 [] c = "2" -> 2 [] c = "3" -> 3
      [] c = "4" -> 4 [] c = "5" -> 5 [] c = "6" -> 6 [] c = "7" -> 7
      [] c = "8" -> 8 [] c = "9" -> 9

RECURSIVE lstrip(_)
lstrip(s) == IF s # <<>> /\ Head(s) = " " THEN lstrip(Tail(s)) ELSE s

RECURSIVE rstrip(_)
rstrip(s) ==
    IF s # <<>> /\ s[Len(s)] = " " THEN rstrip(SubSeq(s, 1, Len(s) - 1)) ELSE s

strip(s) == rstrip(lstrip(s))

valid_digits(b) ==
    /\ b # <<>>
    /\ b[1] \in Digits
    /\ b[Len(b)] \in Digits
    /\ \A k \in 1..Len(b) : b[k] \in Digits \cup {"_"}
    /\ \A k \in 1..(Len(b) - 1) : ~(b[k] = "_" /\ b[k + 1] = "_")

RECURSIVE digits_value(_, _)
digits_value(b, acc) ==
    IF b = <<>> THEN acc
    ELSE IF Head(b) = "_" THEN digits_value(Tail(b), acc)
    ELSE digits_value(Tail(b), acc * 10 + DigitVal(Head(b)))

RECURSIVE keep_digits(_)
keep_digits(s) ==
    IF s = <<>> THEN <<>>
    ELSE IF Head(s) \in Digits THEN <<Head(s)>> \o keep_digits(Tail(s))
    ELSE keep_digits(Tail(s))

int_lenient(s) ==
    IF s = None THEN [ok |-> FALSE, exc |-> "TypeError", val |-> 0]
    ELSE [ok |-> TRUE, exc |-> "", val |-> digits_value(keep_digits(s), 0)]

\* int(s): [ok, exc, val]; ok is FALSE when the conversion raises exc.
int(s) ==
    LET t == strip(s)
        signed == t # <<>> /\ t[1] \in {"+", "-"}
        neg == t # <<>> /\ t[1] = "-"
        b == IF signed THEN Tail(t) ELSE t
    IN  IF s = None THEN [ok |-> FALSE, exc |-> "TypeError", val |-> 0]
        ELSE IF valid_digits(b)
             THEN [ok |-> TRUE, exc |-> "",
                   val |-> IF neg THEN 0 - digits_value(b, 0)
                           ELSE digits_value(b, 0)]
             ELSE [ok |-> FALSE, exc |-> "ValueError", val |-> 0]

----------------------------------------------------------------------------
(* The run as called by the script: line_repeater(wait_before_start=7).    *)

Init ==
    /\ pc = "main"
    /\ arg = MainWait
    /\ wait_before_start = NoArg
    /\ which = "line"
    /\ root = "none"
    /\ input_value = None
    /\ line = Undef
    /\ times = Undef
    /\ rl_line = Undef
    /\ rl_times = 0
    /\ rl_delay = 0
    /\ rl_key = ""
    /\ i = 0
    /\ err = ""
    /\ events = <<>>

\* line_repeater is entered; a missing argument takes the default.
Call ==
    /\ pc = "main"
    /\ wait_before_start' = IF arg = NoArg THEN DefaultWait ELSE arg
    /\ pc' = "prompt"
    /\ UNCHANGED <<arg, which, root, input_value, line, times,
                   rl_line, rl_times, rl_delay, rl_key, i, err, events>>

----------------------------------------------------------------------------
(* get_input_from_tk_window *)

Texts(w) == IF w = "line" THEN LineTexts ELSE CountTexts

\* Lines 9-13 and 42-49: the dialog is built and its event loop entered.
OpenPrompt ==
    /\ pc = "prompt"
    /\ root' = "open"
    /\ pc' = "mainloop"
    /\ events' = Append(events, Ev("mainloop", which, <<>>, 0))
    /\ UNCHANGED <<arg, wait_before_start, which, input_value, line, times,
                   rl_line, rl_times, rl_delay, rl_key, i, err>>

cancel_click_late_status ==
    << Ev("destroy_widgets", "", <<>>, 0),
       Ev("sleep", "l18", <<>>, FeedbackDelay),
       Ev("sleep", "l21", <<>>, FeedbackDelay),
       Ev("status", "Exiting Application...", <<>>, 0),
       Ev("update", "", <<>>, 0),
       Ev("root_destroy", "", <<>>, 0),
       Ev("exit", "", <<>>, 0) >>

\* The body of cancel_click, lines 15-23, which ends in sys.exit().
cancel_click ==
    << Ev("destroy_widgets", "", <<>>, 0),
       Ev("sleep", "l18", <<>>, FeedbackDelay),
       Ev("status", "Exiting Application...", <<>>, 0),
       Ev("update", "", <<>>, 0),
       Ev("sleep", "l21", <<>>, FeedbackDelay),
       Ev("root_destroy", "", <<>>, 0),
       Ev("exit", "", <<>>, 0) >>

\* The body of submit_click up to line 39, for the text in the field.
submit_click(result) ==
    << Ev("destroy_widgets", "", <<>>, 0) >> \o
    IF result = <<>>
    THEN << Ev("status", "No Value Submitted", <<>>, 0),
            Ev("update", "", <<>>, 0) >> \o cancel_click
    ELSE << Ev("status", "Submitted value: ", result, 0),
            Ev("update", "", <<>>, 0),
            Ev("sleep", "l38", <<>>, FeedbackDelay),
            Ev("root_destroy", "", <<>>, 0) >>

CancelClickNoExit ==
    /\ pc = "mainloop"
    /\ root = "open"
    /\ events' = events \o << Ev("click_cancel", which, <<>>, 0) >>
                        \o SubSeq(cancel_click, 1, Len(cancel_click) - 1)
    /\ root' = "destroyed"
    /\ pc' = "return"
    /\ UNCHANGED <<arg, wait_before_start, which, input_value, line, times,
                   rl_line, rl_times, rl_delay, rl_key, i, err>>

\* The Cancel button: cancel_click runs and the process exits.
CancelClick ==
    /\ pc = "mainloop"
    /\ root = "open"
    /\ events' = events \o << Ev("click_cancel", which, <<>>, 0) >>
                        \o cancel_click
    /\ root' = "destroyed"
    /\ pc' = "exited"
    /\ UNCHANGED <<arg, wait_before_start, which, input_value, line, times,
                   rl_line, rl_times, rl_delay, rl_key, i, err>>

\* The Submit button with the text the user typed into the field.
SubmitClick ==
    /\ pc = "mainloop"
    /\ root = "open"
    /\ \E result \in Texts(which) :
        /\ events' = events \o << Ev("click_submit", which, result, 0) >>
                            \o submit_click(result)
        /\ IF result = <<>>
           THEN /\ pc' = "exited"
                /\ UNCHANGED input_value
           ELSE /\ pc' = "return"
                /\ input_value' = result
    /\ root' = "destroyed"
    /\ UNCHANGED <<arg, wait_before_start, which, line, times,
                   rl_line, rl_times, rl_delay, rl_key, i, err>>

\* The window is closed by the window manager: Tk destroys the root and
\* mainloop returns without either handler having run.
CloseWindow ==
    /\ pc = "mainloop"
    /\ root = "open"
    /\ events' = events \o << Ev("close_window", which, <<>>, 0),
                              Ev("root_destroy", "", <<>>, 0) >>
    /\ root' = "destroyed"
    /\ pc' = "return"
    /\ UNCHANGED <<arg, wait_before_start, which, input_value, line, times,
                   rl_line, rl_times, rl_delay, rl_key, i, err>>

\* Line 50, and the assignment of lines 62 and 63.
PromptReturn ==
    /\ pc = "return"
    /\ events' = Append(events, Ev("return", which, input_value, 0))
    /\ root' = "none"
    /\ IF which = "line"
       THEN /\ line' = input_value
            /\ which' = "times"
            /\ pc' = "prompt"
            /\ UNCHANGED times
       ELSE /\ times' = input_value
            /\ pc' = "showinfo"
            /\ UNCHANGED <<line, which>>
    /\ UNCHANGED <<arg, wait_before_start, input_value,
                   rl_line, rl_times, rl_delay, rl_key, i, err>>

----------------------------------------------------------------------------
(* line_repeater, lines 64-66 *)

ShowInfoNoCountdown ==
    /\ pc = "showinfo"
    /\ IF times = None
       THEN /\ err' = "TypeError"
            /\ pc' = "crashed"
            /\ UNCHANGED events
       ELSE /\ events' = Append(events, Ev("showinfo", "", times,
                                            wait_before_start))
            /\ pc' = "convert"
            /\ UNCHANGED err
    /\ UNCHANGED <<arg, wait_before_start, which, root, input_value, line,
                   times, rl_line, rl_times, rl_delay, rl_key, i>>

\* Line 64: the message is concatenated (str + None raises TypeError) and
\* the acknowledgment is shown until the user dismisses it.
ShowInfo ==
    /\ pc = "showinfo"
    /\ IF times = None
       THEN /\ err' = "TypeError"
            /\ pc' = "crashed"
            /\ UNCHANGED events
       ELSE /\ events' = Append(events, Ev("showinfo", "", times,
                                            wait_before_start))
            /\ pc' = "countdown"
            /\ UNCHANGED err
    /\ UNCHANGED <<arg, wait_before_start, which, root, input_value, line,
                   times, rl_line, rl_times, rl_delay, rl_key, i>>

\* Line 65: time.sleep(wait_before_start).
Countdown ==
    /\ pc = "countdown"
    /\ events' = Append(events, Ev("sleep", "l65", <<>>, wait_before_start))
    /\ pc' = "convert"
    /\ UNCHANGED <<arg, wait_before_start, which, root, input_value, line,
                   times, rl_line, rl_times, rl_delay, rl_key, i, err>>

\* Line 66: int(times) is evaluated, then repeat_line is called.
Convert ==
    /\ pc = "convert"
    /\ LET r == int(times)
       IN  IF r.ok
           THEN /\ rl_line' = line
                /\ rl_times' = r.val
                /\ rl_delay' = RepeatDelay
                /\ rl_key' = "shift+enter"
                /\ i' = 0
                /\ events' = Append(events, Ev("repeat_line", "", <<>>, r.val))
                /\ pc' = "repeat"
                /\ UNCHANGED err
           ELSE /\ err' = r.exc
                /\ pc' = "crashed"
                /\ UNCHANGED <<rl_line, rl_times, rl_delay, rl_key, i, events>>
    /\ UNCHANGED <<arg, wait_before_start, which, root, input_value, line,
                   times>>

----------------------------------------------------------------------------
(* repeat_line *)

in_range_inclusive(k, n) == k <= n

\* for i in range(0, times): k iterations are done, is there another one?
in_range(k, n) == k < n

\* pyautogui.typewrite(line, interval=0.1): one key per character.
typewrite(s) == [k \in 1..Len(s) |-> Ev("type", "", <<s[k]>>, TypeInterval)]

submit_key_always_press(key) ==
    IF key \in {"enter", "shift+enter"}
    THEN << Ev("press", "enter", <<>>, 0) >>
    ELSE <<>>

\* Lines 55-58.
submit_key(key) ==
    IF key = "enter" THEN << Ev("press", "enter", <<>>, 0) >>
    ELSE IF key = "shift+enter" THEN << Ev("hotkey", "shift+enter", <<>>, 0) >>
    ELSE <<>>

\* Lines 53-54: the next iteration starts by typing the line; iterating
\* over None raises TypeError inside typewrite.
Typewrite ==
    /\ pc = "repeat"
    /\ in_range(i, rl_times)
    /\ IF rl_line = None
       THEN /\ err' = "TypeError"
            /\ pc' = "crashed"
            /\ UNCHANGED events
       ELSE /\ events' = events \o typewrite(rl_line)
            /\ pc' = "key"
            /\ UNCHANGED err
    /\ UNCHANGED <<arg, wait_before_start, which, root, input_value, line,
                   times, rl_line, rl_times, rl_delay, rl_key, i>>

\* Lines 55-58.
SubmitKey ==
    /\ pc = "key"
    /\ events' = events \o submit_key(rl_key)
    /\ pc' = "sleep"
    /\ UNCHANGED <<arg, wait_before_start, which, root, input_value, line,
                   times, rl_line, rl_times, rl_delay, rl_key, i, err>>

\* Line 59.
SleepDelay ==
    /\ pc = "sleep"
    /\ events' = Append(events, Ev("sleep", "l59", <<>>, rl_delay))
    /\ i' = i + 1
    /\ pc' = "repeat"
    /\ UNCHANGED <<arg, wait_before_start, which, root, input_value, line,
                   times, rl_line, rl_times, rl_delay, rl_key, err>>

\* The range is exhausted: repeat_line returns.
LoopEnd ==
    /\ pc = "repeat"
    /\ ~in_range(i, rl_times)
    /\ pc' = "done"
    /\ UNCHANGED <<arg, wait_before_start, which, root, input_value, line,
                   times, rl_line, rl_times, rl_delay, rl_key, i, err, events>>

----------------------------------------------------------------------------

NextRepeat == Typewrite \/ SubmitKey \/ SleepDelay \/ LoopEnd

Next ==
    \/ Call
    \/ OpenPrompt
    \/ SubmitClick
    \/ CancelClick
    \/ CloseWindow
    \/ PromptReturn
    \/ ShowInfo
    \/ Countdown
    \/ Convert
    \/ NextRepeat

Spec == Init /\ [][Next]_vars

(* line_repeater called with any argument, or with none. *)
CallArgs == {NoArg, 0, 30, MainWait}

InitCall ==
    /\ pc = "main"
    /\ arg \in CallArgs
    /\ wait_before_start = NoArg
    /\ which = "line"
    /\ root = "none"
    /\ input_value = None
    /\ line = Undef
    /\ times = Undef
    /\ rl_line = Undef
    /\ rl_times = 0
    /\ rl_delay = 0
    /\ rl_key = ""
    /\ i = 0
    /\ err = ""
    /\ events = <<>>

SpecCall == InitCall /\ [][Next]_vars

(* repeat_line called on its own with any arguments. *)
InitRepeat ==
    /\ pc = "repeat"
    /\ arg = NoArg
    /\ wait_before_start = NoArg
    /\ which = "line"
    /\ root = "none"
    /\ input_value = None
    /\ line = Undef
    /\ times = Undef
    /\ rl_line \in LineTexts
    /\ rl_times \in -1..MaxTimes
    /\ rl_delay \in {0, RepeatDelay}
    /\ rl_key \in {"enter", "shift+enter", "tab"}
    /\ i = 0
    /\ err = ""
    /\ events = <<>>

SpecRepeat == InitRepeat /\ [][NextRepeat]_vars

----------------------------------------------------------------------------
(* Reading the history. *)

KeyKinds == {"type", "press", "hotkey"}

Idx(kind) == {k \in DOMAIN events : events[k].kind = kind}

KeyIdx == {k \in DOMAIN events : events[k].kind \in KeyKinds}

CountdownIdx ==
    {k \in DOMAIN events : events[k].kind = "sleep" /\ events[k].msg = "l65"}

\* The text with which the user clicked Submit in prompt w, None if the user
\* did not.
SubmitIdx(w) ==
    {k \in DOMAIN events :
        events[k].kind = "click_submit" /\ events[k].msg = w}

SubmittedText(w) ==
    IF SubmitIdx(w) = {} THEN None
    ELSE events[CHOOSE k \in SubmitIdx(w) : TRUE].txt

\* The decimal string of a natural number.
DigitChar(n) ==
    CASE n = 0 -> "0" [] n = 1 -> "1" [] n = 2 -> "2" [] n = 3 -> "3"
      [] n = 4 -> "4" [] n = 5 -> "5" [] n = 6 -> "6" [] n = 7 -> "7"
      [] n = 8 -> "8" [] n = 9 -> "9"

RECURSIVE Str(_)
Str(n) == IF n < 10 THEN << DigitChar(n) >>
          ELSE Str(n \div 10) \o << DigitChar(n % 10) >>

RECURSIVE Pow10(_)
Pow10(n) == IF n = 0 THEN 1 ELSE 10 * Pow10(n - 1)

\* The counts a decimal string of at most MaxCountLen digits can denote.
Counts == 0..(Pow10(MaxCountLen) - 1)

----------------------------------------------------------------------------
\* C1: repeat_line(line, times, 0, "enter") with times >= 0, once returned,
\* has issued exactly times presses of enter and times * len(line) character
\* keys, and with times = 0 it has done nothing at all.
C1_RepeatCounts ==
    (pc = "done" /\ rl_key = "enter" /\ rl_delay = 0 /\ rl_times >= 0) =>
        /\ Cardinality(Idx("press")) = rl_times
        /\ Cardinality(Idx("hotkey")) = 0
        /\ Cardinality(Idx("type")) = rl_times * Len(rl_line)
        /\ (rl_times = 0 => events = <<>>)

C1_Witness ==
    /\ pc = "done" /\ rl_key = "enter" /\ rl_delay = 0
    /\ rl_times = 2 /\ Len(rl_line) = 2
    /\ Cardinality(Idx("type")) = 4

\* C2: once a prompt is cancelled or submitted empty the process has exited,
\* no acknowledgment was shown, repeat_line was not called and no key was
\* injected.
CancelledOrEmpty ==
    \E k \in DOMAIN events :
        \/ events[k].kind = "click_cancel"
        \/ events[k].kind = "click_submit" /\ events[k].txt = <<>>

C2_CancelTerminates ==
    CancelledOrEmpty =>
        /\ pc = "exited"
        /\ Idx("showinfo") = {}
        /\ Idx("repeat_line") = {}
        /\ KeyIdx = {}

C2_Witness ==
    /\ \E k \in DOMAIN events :
          events[k] = Ev("click_submit", "times", <<>>, 0)
    /\ line # Undef
    /\ pc = "exited"

\* C3: when the line prompt was submitted with a non-empty text L and the
\* count prompt with the decimal string of n >= 0, the finished run has
\* injected, after the countdown, exactly n times: the characters of L, one
\* shift+enter hotkey, a sleep of 0.5 s; and no key anywhere else.
Expected(L, n) ==
    [p \in 1..(n * (Len(L) + 2)) |->
        LET q == (p - 1) % (Len(L) + 2)
        IN  IF q < Len(L) THEN Ev("type", "", << L[q + 1] >>, 1)
            ELSE IF q = Len(L) THEN Ev("hotkey", "shift+enter", <<>>, 0)
            ELSE Ev("sleep", "l59", <<>>, 5)]

AfterCall ==
    IF Idx("repeat_line") = {} THEN <<>>
    ELSE LET c == CHOOSE k \in Idx("repeat_line") : TRUE
         IN  SubSeq(events, c + 1, Len(events))

C3_ExactRepetitions ==
    (pc = "done" /\ SubmittedText("line") \notin {None, <<>>}) =>
        \A n \in Counts :
            SubmittedText("times") = Str(n) =>
                /\ AfterCall = Expected(SubmittedText("line"), n)
                /\ \A k \in KeyIdx : k > Len(events) - Len(AfterCall)

C3_Witness ==
    /\ pc = "done"
    /\ SubmittedText("line") = <<"h", "1">>
    /\ SubmittedText("times") = <<"1", "1">>
    /\ Cardinality(Idx("hotkey")) = 11

\* C4: with key = "shift+enter" every iteration's submit action is the
\* shift+enter hotkey: there is one hotkey per submit step taken and never a
\* press of enter.
SubmitsDone == IF pc = "sleep" THEN i + 1 ELSE i

C4_HotkeyOnly ==
    rl_key = "shift+enter" =>
        /\ Idx("press") = {}
        /\ Cardinality(Idx("hotkey")) = SubmitsDone
        /\ \A k \in Idx("hotkey") : events[k].msg = "shift+enter"

C4_Witness ==
    /\ rl_key = "shift+enter"
    /\ pc = "done"
    /\ Cardinality(Idx("hotkey")) = 3

\* C5: when the count prompt returned a string that is no number, the run
\* gets as far as the conversion of line 66 and ends there with ValueError:
\* repeat_line is never called and no key is injected.
Letters == {"a"}

HasLetter(s) == \E k \in DOMAIN s : s[k] \in Letters

NoDigit(s) == \A k \in DOMAIN s : s[k] \notin Digits

NonNumeric(s) == s \notin {None, Undef} /\ (HasLetter(s) \/ NoDigit(s))

C5_ConversionFails ==
    NonNumeric(times) =>
        /\ pc \in {"showinfo", "countdown", "convert", "crashed"}
        /\ (pc = "crashed" => err = "ValueError" /\ CountdownIdx # {})
        /\ Idx("repeat_line") = {}
        /\ KeyIdx = {}
        /\ i = 0

C5_Witness ==
    /\ times = <<"a", "1">>
    /\ pc = "crashed"
    /\ err = "ValueError"

\* C6 as amended: after a click on Cancel the status "Exiting
\* Application..." is displayed, then one 2-second delay elapses, then the
\* dialog is destroyed, then the process exits; the path holds two 2-second
\* delays, the other one before the status is displayed.
AfterCancel ==
    IF Idx("click_cancel") = {} THEN <<>>
    ELSE LET c == CHOOSE k \in Idx("click_cancel") : TRUE
         IN  SubSeq(events, c + 1, Len(events))

TwoSecondDelays(ev) ==
    {k \in DOMAIN ev : ev[k].kind = "sleep" /\ ev[k].d = 2 * 10}

CancelOrder(ev) ==
    \E s, d, r \in DOMAIN ev :
        /\ s + 1 < d /\ d < r /\ r < Len(ev)
        /\ ev[s] = Ev("status", "Exiting Application...", <<>>, 0)
        /\ ev[s + 1].kind = "update"
        /\ TwoSecondDelays(ev) \cap (s..r) = {d}
        /\ ev[r].kind = "root_destroy"
        /\ ev[Len(ev)].kind = "exit"
        /\ \A k \in DOMAIN ev : ev[k].kind = "root_destroy" => k = r
        /\ pc = "exited"

C6_CancelOrderTwoDelays ==
    Idx("click_cancel") # {} =>
        /\ CancelOrder(AfterCancel)
        /\ Cardinality(TwoSecondDelays(AfterCancel)) = 2
        /\ \E k \in TwoSecondDelays(AfterCancel) :
              \A s \in DOMAIN AfterCancel :
                  AfterCancel[s].kind = "status" => k < s

\* C6 as stated: the same order, with exactly one 2-second delay on the
\* cancel path.
C6_Original ==
    Idx("click_cancel") # {} =>
        /\ CancelOrder(AfterCancel)
        /\ Cardinality(TwoSecondDelays(AfterCancel)) = 1

C6_Witness ==
    /\ Idx("click_cancel") # {}
    /\ which = "times"
    /\ pc = "exited"

\* C7: whenever repeat_line has been called from line_repeater, its times
\* argument is not negative.
C7_TimesNonNegative ==
    \A k \in Idx("repeat_line") : events[k].d >= 0 /\ rl_times >= 0

\* C8 as amended: the countdown sleep lasts 10 seconds when line_repeater is
\* called without an argument, and exactly the passed value otherwise (the
\* script passes 7).
C8_DefaultTen ==
    \A k \in CountdownIdx :
        events[k].d = IF arg = NoArg THEN 10 * 10 ELSE arg

\* C8 as stated: 7 seconds without an argument.
C8_Original ==
    \A k \in CountdownIdx :
        events[k].d = IF arg = NoArg THEN 7 * 10 ELSE arg

C8_Witness ==
    /\ arg = NoArg
    /\ CountdownIdx # {}
    /\ pc = "done"

\* C9: the stages of a run happen in this order: line prompt, its return,
\* count prompt, its return, acknowledgment, countdown, repeat_line; every
\* key is injected after the countdown, and no dialog opens after it.
StageOrder ==
    << <<"mainloop", "line">>, <<"return", "line">>,
       <<"mainloop", "times">>, <<"return", "times">>,
       <<"showinfo", "">>, <<"sleep", "l65">>, <<"repeat_line", "">> >>

IsStage(e) == \E k \in DOMAIN StageOrder : StageOrder[k] = <<e.kind, e.msg>>

Stages == SelectSeq(events, IsStage)

C9_StageOrder ==
    /\ LET st == Stages
       IN  /\ Len(st) <= Len(StageOrder)
           /\ \A k \in DOMAIN st : <<st[k].kind, st[k].msg>> = StageOrder[k]
           /\ (pc \in {"repeat", "key", "sleep", "done"} =>
                  Len(st) = Len(StageOrder))
    /\ (KeyIdx # {} => \E c \in CountdownIdx : \A k \in KeyIdx : c < k)
    /\ \A c \in CountdownIdx :
          \A k \in Idx("mainloop") \cup Idx("showinfo") : k < c

C9_Witness ==
    /\ pc = "done"
    /\ Len(Stages) = 7
    /\ KeyIdx # {}

\* C10: every value a prompt returns is the non-empty text submitted in that
\* same prompt.
C10_ReturnsSubmitted ==
    \A k \in Idx("return") :
        /\ events[k].txt # None
        /\ events[k].txt # <<>>
        /\ \E j \in 1..(k - 1) :
              events[j] = Ev("click_submit", events[k].msg, events[k].txt, 0)

====
